---- MODULE Spec2Model ----
(***************************************************************************)
(* config-binder: the recursive, type-directed binding engine of           *)
(* src/config_binder/binder.py (ConfigBinder.bind and its helpers).        *)
(*                                                                         *)
(* An Untyped Value is a record [t, v]: t is the name of its native Python *)
(* type, v its payload.  Strings are sequences of one-character strings so *)
(* that parsing, lower-casing and formatting are computed, not assumed.    *)
(* A float is a decimal m * 10^(-e) in normal form (no trailing zero in    *)
(* the fraction), or inf/-inf/nan.  A dict is a sequence of <<key, value>> *)
(* pairs in insertion order.                                               *)
(*                                                                         *)
(* An outcome is a record [st, val, path]: st = "ok" and the bound value,  *)
(* or st = the class of the exception raised; path lists the field names   *)
(* the ValidationError message was prefixed with, outermost first.         *)
(***************************************************************************)
EXTENDS Integers, Sequences, FiniteSets, TLC

\* untyped, schema: the arguments of the bind call; result: what it returned or
\* raised; first: the outcome of the previous call when the result is bound again;
\* environ: os.environ, read when the loader constructs a scalar
VARIABLES untyped, schema, pc, result, first, environ

vars == <<untyped, schema, pc, result, first, environ>>

RECURSIVE DigitsVal(_), IntStr(_), Pow10(_), Normal(_, _), Repr(_), ReprItems(_, _),
          JoinRepr(_), LStrip(_), RStrip(_), HasNonFinite(_)
RECURSIVE bind(_, _), bind_class(_, _), bind_fields(_, _, _, _), bind_items(_, _),
          bind_zip(_, _), bind_values(_, _), literal_from(_, _),
          first_class(_, _), first_primitive(_, _), Distinct(_),
          literal_first_coercible(_, _), Conforms(_, _)

(***************************************************************************)
(* Native values                                                           *)
(***************************************************************************)
None == [t |-> "NoneType", v |-> <<>>]

BoolV(b) == [t |-> "bool", v |-> b]

IntV(n) == [t |-> "int", v |-> n]

Fin(m, e) == [t |-> "float", v |-> <<"fin", m, e>>]

Inf(sign) == [t |-> "float", v |-> <<"inf", sign, 0>>]

NaN == [t |-> "float", v |-> <<"nan", 0, 0>>]

StrV(s) == [t |-> "str", v |-> s]

ListV(xs) == [t |-> "list", v |-> xs]

TupleOf(xs) == [t |-> "tuple", v |-> xs]

SetOf(xs) == [t |-> "set", v |-> xs]

DictV(kvs) == [t |-> "dict", v |-> kvs]

Object(name, kvs) == [t |-> "object", v |-> <<name, kvs>>]

(***************************************************************************)
(* Outcomes of a call                                                      *)
(***************************************************************************)
NoValue == [t |-> "undefined", v |-> <<>>]

Ok(x) == [st |-> "ok", val |-> x, path |-> <<>>]

Raise(kind) == [st |-> kind, val |-> NoValue, path |-> <<>>]

IsOk(r) == r.st = "ok"

(***************************************************************************)
(* Text                                                                    *)
(***************************************************************************)
Digits == <<"0", "1", "2", "3", "4", "5", "6", "7", "8", "9">>

UpperCase == <<"A", "B", "C", "D", "E", "F", "G", "H", "I", "J", "K", "L", "M",
               "N", "O", "P", "Q", "R", "S", "T", "U", "V", "W", "X", "Y", "Z">>

LowerCase == <<"a", "b", "c", "d", "e", "f", "g", "h", "i", "j", "k", "l", "m",
               "n", "o", "p", "q", "r", "s", "t", "u", "v", "w", "x", "y", "z">>

IsDigit(c) == \E i \in DOMAIN Digits : Digits[i] = c

IsLetter(c) == \E i \in DOMAIN UpperCase : UpperCase[i] = c \/ LowerCase[i] = c

DigitVal(c) == (CHOOSE i \in DOMAIN Digits : Digits[i] = c) - 1

DigitsVal(s) ==
    IF s = <<>> THEN 0
    ELSE DigitsVal(SubSeq(s, 1, Len(s) - 1)) * 10 + DigitVal(s[Len(s)])

Pow10(e) == IF e = 0 THEN 1 ELSE 10 * Pow10(e - 1)

Abs(n) == IF n < 0 THEN -n ELSE n

\* str(int)
IntStr(n) ==
    IF n < 0 THEN <<"-">> \o IntStr(-n)
    ELSE IF n < 10 THEN <<Digits[n + 1]>>
    ELSE IntStr(n \div 10) \o <<Digits[(n % 10) + 1]>>

\* the digits of n, left-padded with zeros to width w
Padded(n, w) ==
    LET d == IntStr(n)
    IN  [i \in 1..(w - Len(d)) |-> "0"] \o d

\* str.lower()
LowerChar(c) ==
    IF \E i \in DOMAIN UpperCase : UpperCase[i] = c
    THEN LowerCase[CHOOSE i \in DOMAIN UpperCase : UpperCase[i] = c]
    ELSE c

Lower(s) == [i \in DOMAIN s |-> LowerChar(s[i])]

LStrip(s) == IF s # <<>> /\ s[1] = " " THEN LStrip(Tail(s)) ELSE s

RStrip(s) ==
    IF s # <<>> /\ s[Len(s)] = " " THEN RStrip(SubSeq(s, 1, Len(s) - 1)) ELSE s

Strip(s) == RStrip(LStrip(s))

\* the decimal m * 10^(-e) without trailing zeros in its fraction
Normal(m, e) ==
    IF e > 0 /\ m % 10 = 0 THEN Normal(m \div 10, e - 1) ELSE Fin(m, e)

\* an unsigned decimal numeral: digits, digits.digits, digits. or .digits
IsNumeral(s) ==
    LET dots == {i \in DOMAIN s : s[i] = "."}
    IN  /\ Cardinality(dots) <= 1
        /\ \A i \in DOMAIN s : IsDigit(s[i]) \/ s[i] = "."
        /\ \E i \in DOMAIN s : IsDigit(s[i])

NumeralValue(s) ==
    LET dots == {i \in DOMAIN s : s[i] = "."}
        dot  == IF dots = {} THEN Len(s) + 1 ELSE CHOOSE i \in dots : TRUE
        whole == SubSeq(s, 1, dot - 1)
        frac  == SubSeq(s, dot + 1, Len(s))
    IN  <<DigitsVal(whole \o frac), Len(frac)>>

HasSign(s) == s # <<>> /\ s[1] \in {"+", "-"}

Unsigned(s) == IF HasSign(s) THEN Tail(s) ELSE s

SignOf(s) == IF s # <<>> /\ s[1] = "-" THEN -1 ELSE 1

\* float(str): surrounding blanks stripped, optional sign, a decimal numeral or
\* inf/infinity/nan in any case.  (Exponents and digit-group underscores are
\* outside the alphabet of the strings the model binds.)
ParseFloat(s) ==
    LET body == Unsigned(Strip(s))
        sign == SignOf(Strip(s))
        word == Lower(body)
    IN  IF word \in {<<"i", "n", "f">>, <<"i", "n", "f", "i", "n", "i", "t", "y">>}
        THEN Ok(Inf(sign))
        ELSE IF word = <<"n", "a", "n">> THEN Ok(NaN)
        ELSE IF IsNumeral(body)
        THEN Ok(Normal(sign * NumeralValue(body)[1], NumeralValue(body)[2]))
        ELSE Raise("ValueError")

\* int(float): truncation toward zero
Truncate(f) ==
    IF f.v[1] = "inf" THEN Raise("OverflowError")
    ELSE IF f.v[1] = "nan" THEN Raise("ValueError")
    ELSE LET m == f.v[2]
             q == Abs(m) \div Pow10(f.v[3])
         IN  Ok(IntV(IF m < 0 THEN -q ELSE q))

\* str(float)
FloatStr(f) ==
    IF f.v[1] = "inf" THEN (IF f.v[2] < 0 THEN <<"-">> ELSE <<>>) \o <<"i", "n", "f">>
    ELSE IF f.v[1] = "nan" THEN <<"n", "a", "n">>
    ELSE LET m == f.v[2]
             e == f.v[3]
             whole == Abs(m) \div Pow10(e)
             frac  == Abs(m) % Pow10(e)
         IN  (IF m < 0 THEN <<"-">> ELSE <<>>) \o IntStr(whole) \o <<".">>
             \o (IF e = 0 THEN <<"0">> ELSE Padded(frac, e))

\* repr(x); for a str the quoted text (the strings bound hold no quote or
\* backslash)
Repr(x) ==
    CASE x.t = "NoneType" -> <<"N", "o", "n", "e">>
      [] x.t = "bool" -> IF x.v THEN <<"T", "r", "u", "e">> ELSE <<"F", "a", "l", "s", "e">>
      [] x.t = "int" -> IntStr(x.v)
      [] x.t = "float" -> FloatStr(x)
      [] x.t = "str" -> <<"'">> \o x.v \o <<"'">>
      [] x.t = "list" -> <<"[">> \o JoinRepr(ReprItems(x.v, FALSE)) \o <<"]">>
      [] x.t = "dict" -> <<"{">> \o JoinRepr(ReprItems(x.v, TRUE)) \o <<"}">>

ReprItems(xs, pairs) ==
    IF xs = <<>> THEN <<>>
    ELSE <<IF pairs
           THEN Repr(StrV(xs[1][1])) \o <<":", " ">> \o Repr(xs[1][2])
           ELSE Repr(xs[1])>> \o ReprItems(Tail(xs), pairs)

JoinRepr(parts) ==
    IF parts = <<>> THEN <<>>
    ELSE IF Len(parts) = 1 THEN parts[1]
    ELSE parts[1] \o <<",", " ">> \o JoinRepr(Tail(parts))

\* str(x)
ToStr(x) == IF x.t = "str" THEN x.v ELSE Repr(x)

(***************************************************************************)
(* Type descriptors: [kind, of].  "of" holds the type's name for a         *)
(* primitive, <<name, constructor, fields>> for a class (fields a sequence *)
(* of <<field name, descriptor>> in declaration order) and __args__ for a  *)
(* generic alias.                                                          *)
(***************************************************************************)
primitive_types == <<"bool", "int", "float", "NoneType", "str">>

Prim(n) == [kind |-> "primitive", of |-> n]

Class(name, ctor, fields) == [kind |-> "class", of |-> <<name, ctor, fields>>]

ListType(d) == [kind |-> "list", of |-> <<d>>]

SetType(d) == [kind |-> "set", of |-> <<d>>]

TupleType(ds) == [kind |-> "tuple", of |-> ds]

DictType(k, d) == [kind |-> "dict", of |-> <<k, d>>]

LiteralType(xs) == [kind |-> "Literal", of |-> xs]

UnionType(ds) == [kind |-> "Union", of |-> ds]

InPrimitiveTypes(d) == d.kind = "primitive"

\* primitive_types.index(t)
PrimitiveIndex(n) == CHOOSE i \in DOMAIN primitive_types : primitive_types[i] = n

if_custom_class(d) == d.kind = "class"

if_collection(d) == d.kind \in {"list", "set", "dict", "tuple"}

if_literal(d) == d.kind = "Literal"

if_union(d) == d.kind = "Union"

(***************************************************************************)
(* __bind_simple_type                                                      *)
(***************************************************************************)
\* float(x)
ToFloat(x) ==
    CASE x.t = "str" -> ParseFloat(x.v)
      [] x.t = "int" -> Ok(Fin(x.v, 0))
      [] x.t = "float" -> Ok(x)
      [] x.t = "bool" -> Ok(Fin(IF x.v THEN 1 ELSE 0, 0))
      [] OTHER -> Raise("TypeError")

IsIdentifier(s) ==
    /\ s # <<>>
    /\ IsLetter(s[1]) \/ s[1] = "_"
    /\ \A i \in DOMAIN s : IsLetter(s[i]) \/ IsDigit(s[i]) \/ s[i] = "_"

\* a Python number literal: a decimal integer has no leading zero unless it
\* is all zeros; a numeral with a point may have them
IsPyNumber(s) ==
    /\ IsNumeral(s)
    /\ \/ \E i \in DOMAIN s : s[i] = "."
       \/ s[1] # "0"
       \/ \A i \in DOMAIN s : s[i] = "0"

HasNonFinite(x) ==
    CASE x.t = "float" -> x.v[1] # "fin"
      [] x.t = "list" -> \E i \in DOMAIN x.v : HasNonFinite(x.v[i])
      [] x.t = "dict" -> \E i \in DOMAIN x.v : HasNonFinite(x.v[i][2])
      [] OTHER -> FALSE

\* ast.literal_eval(str(x)): "None" when it evaluates to None, "value" when it
\* evaluates to anything else, otherwise the exception it raises.  A name that
\* is no literal is a malformed node (ValueError); text that is no expression
\* is a SyntaxError.
LiteralEval(x) ==
    LET s == IF x.t = "str" THEN Strip(x.v) ELSE <<>>
    IN  CASE x.t = "float" -> IF x.v[1] = "fin" THEN "value" ELSE "ValueError"
          [] x.t \in {"bool", "int", "NoneType"} -> "value"
          [] x.t \in {"list", "dict"} -> IF HasNonFinite(x) THEN "ValueError" ELSE "value"
          [] x.t = "str" ->
                IF s = <<"N", "o", "n", "e">> THEN "None"
                ELSE IF s \in {<<"T", "r", "u", "e">>, <<"F", "a", "l", "s", "e">>}
                THEN "value"
                ELSE IF IsIdentifier(s) THEN "ValueError"
                ELSE IF IsPyNumber(Unsigned(s)) THEN "value"
                ELSE IF HasSign(s) /\ IsIdentifier(Tail(s)) THEN "ValueError"
                ELSE "SyntaxError"

\* mutant: a bool is converted like any other value
stringify_bool_skip(field_data) == field_data

\* lines 211-212: a bool is turned into its text before any conversion
stringify_bool(field_data) ==
    IF field_data.t = "bool" THEN StrV(ToStr(field_data)) ELSE field_data

\* lines 211-227: the conversions, for an input whose type is not the target
simple_type_convert(field_data, field_type) ==
    LET d == stringify_bool(field_data)
    IN  CASE field_type = "int" ->
               IF IsOk(ToFloat(d)) THEN Truncate(ToFloat(d).val) ELSE ToFloat(d)
          [] field_type = "bool" ->
               IF d.t = "str" /\ Lower(d.v) = <<"t", "r", "u", "e">>
               THEN Ok(BoolV(TRUE))
               ELSE IF d.t = "str" /\ Lower(d.v) = <<"f", "a", "l", "s", "e">>
               THEN Ok(BoolV(FALSE))
               ELSE Raise("ValueError")
          [] field_type = "NoneType" ->
               IF LiteralEval(d) = "None" THEN Ok(None)
               ELSE IF LiteralEval(d) = "value" THEN Raise("TypeError")
               ELSE Raise(LiteralEval(d))
          [] field_type = "float" -> ToFloat(d)
          [] field_type = "str" -> Ok(StrV(ToStr(d)))

\* mutant: the fast path calls the target type on the value, and NoneType(None)
\* is a TypeError
simple_type_try_call(field_data, field_type) ==
    IF field_data.t = field_type
    THEN IF field_type = "NoneType" THEN Raise("TypeError") ELSE Ok(field_data)
    ELSE simple_type_convert(field_data, field_type)

\* the body of the try block, lines 209-227: the fast path, then the conversions
simple_type_try(field_data, field_type) ==
    IF field_data.t = field_type THEN Ok(field_data)
    ELSE simple_type_convert(field_data, field_type)

bind_simple_type(field_data, field_type) ==
    LET r == simple_type_try(field_data, field_type)
    IN  IF r.st \in {"TypeError", "ValueError"} THEN Raise("ValidationError") ELSE r

(***************************************************************************)
(* Collections                                                             *)
(***************************************************************************)
\* whether iter(x) succeeds
Iterable(x) == x.t \in {"list", "str", "dict"}

\* what iterating x yields: a list's items, a str's characters, a dict's keys
Items(x) ==
    CASE x.t = "list" -> x.v
      [] x.t = "str" -> [i \in DOMAIN x.v |-> StrV(<<x.v[i]>>)]
      [] x.t = "dict" -> [i \in DOMAIN x.v |-> StrV(x.v[i][1])]

\* [cls.bind(item, item_type) for item in field_data]: the first exception ends it
bind_items(items, item_type) ==
    IF items = <<>> THEN Ok(ListV(<<>>))
    ELSE LET h == bind(items[1], item_type)
             r == bind_items(Tail(items), item_type)
         IN  IF ~IsOk(h) THEN h
             ELSE IF ~IsOk(r) THEN r
             ELSE Ok(ListV(<<h.val>> \o r.val.v))

\* the first occurrence of each element, in order
Distinct(xs) ==
    IF xs = <<>> THEN <<>>
    ELSE LET front == SubSeq(xs, 1, Len(xs) - 1)
             x == xs[Len(xs)]
         IN  IF \E i \in DOMAIN front : front[i] = x
             THEN Distinct(front)
             ELSE Distinct(front) \o <<x>>

\* set(items): instances of a dataclass (eq without hash) are unhashable,
\* instances of a plain class hash by identity, primitives by value
make_set(items, item_type) ==
    IF item_type.kind = "class"
    THEN IF item_type.of[2] = "dataclass" /\ items # <<>>
         THEN Raise("TypeError")
         ELSE Ok(SetOf(items))
    ELSE Ok(SetOf(Distinct(items)))

bind_set_list(field_data, field_type) ==
    LET item_type == field_type.of[1]
        r == bind_items(Items(field_data), item_type)
    IN  IF ~Iterable(field_data) THEN Raise("TypeError")
        ELSE IF ~IsOk(r) THEN r
        ELSE IF field_type.kind = "list" THEN r
        ELSE make_set(r.val.v, item_type)

\* tuple(cls.bind(item, item_type) for item, item_type in zip(field_data, args)):
\* zip ends with the shorter of the two
bind_zip(items, item_types) ==
    IF items = <<>> \/ item_types = <<>> THEN Ok(TupleOf(<<>>))
    ELSE LET h == bind(items[1], item_types[1])
             r == bind_zip(Tail(items), Tail(item_types))
         IN  IF ~IsOk(h) THEN h
             ELSE IF ~IsOk(r) THEN r
             ELSE Ok(TupleOf(<<h.val>> \o r.val.v))

bind_tuple(field_data, field_type) ==
    IF ~Iterable(field_data) THEN Raise("TypeError")
    ELSE bind_zip(Items(field_data), field_type.of)

\* {key: cls.__bind_class(value, value_type) for key, value in field_data.items()}
bind_values(pairs, value_type) ==
    IF pairs = <<>> THEN Ok(DictV(<<>>))
    ELSE LET h == bind_class(pairs[1][2], value_type)
             r == bind_values(Tail(pairs), value_type)
         IN  IF ~IsOk(h) THEN h
             ELSE IF ~IsOk(r) THEN r
             ELSE Ok(DictV(<<(<<pairs[1][1], h.val>>)>> \o r.val.v))

\* mutant: the key type is checked only where the values are bound
bind_dict_key_late(field_data, field_type) ==
    LET key_type == field_type.of[1]
        value_type == field_type.of[2]
    IN  IF ~if_custom_class(value_type) THEN Ok(field_data)
        ELSE IF field_data.t # "dict" THEN Raise("AttributeError")
        ELSE IF ~IsOk(bind_values(field_data.v, value_type))
        THEN bind_values(field_data.v, value_type)
        ELSE IF key_type # Prim("str") THEN Raise("ValidationError")
        ELSE bind_values(field_data.v, value_type)

bind_dict(field_data, field_type) ==
    LET key_type == field_type.of[1]
        value_type == field_type.of[2]
    IN  IF key_type # Prim("str") THEN Raise("ValidationError")
        ELSE IF if_custom_class(value_type)
        THEN IF field_data.t = "dict"
             THEN bind_values(field_data.v, value_type)
             ELSE Raise("AttributeError")
        ELSE Ok(field_data)

(***************************************************************************)
(* Literal and Union                                                       *)
(***************************************************************************)
\* type(possible_arg)
TypeOf(x) == x.t

\* mutant: the first candidate type the input coerces to wins, equal or not
literal_first_coercible(field_data, args) ==
    IF args = <<>> THEN Raise("ValidationError")
    ELSE LET b == bind_simple_type(field_data, TypeOf(args[1]))
         IN  IF IsOk(b) THEN b
             ELSE literal_first_coercible(field_data, Tail(args))

literal_from(field_data, args) ==
    IF args = <<>> THEN Raise("ValidationError")
    ELSE LET b == bind_simple_type(field_data, TypeOf(args[1]))
         IN  IF IsOk(b) /\ b.val = args[1] THEN b
             ELSE literal_from(field_data, Tail(args))

bind_literal(field_data, field_type) == literal_from(field_data, field_type.of)

NotInPrimitiveTypes(d) == ~InPrimitiveTypes(d)

\* mutant: the primitive alternatives are left in declared order
declared_order(types) == types

\* sorted(types, key=lambda t: primitive_types.index(t)): a stable sort
sorted_by_index(types) ==
    LET key(i) == PrimitiveIndex(types[i].of)
        rank(i) == Cardinality({j \in DOMAIN types :
                                  key(j) < key(i) \/ (key(j) = key(i) /\ j < i)}) + 1
    IN  [k \in DOMAIN types |-> types[CHOOSE i \in DOMAIN types : rank(i) = k]]

\* the loop of lines 187-191; "exhausted" when no alternative binds
first_class(field_data, types) ==
    IF types = <<>> THEN Raise("exhausted")
    ELSE LET r == bind_class(field_data, types[1])
         IN  IF IsOk(r) THEN r ELSE first_class(field_data, Tail(types))

\* mutant: the first primitive alternative that fails ends the loop
first_primitive_stop(field_data, types) ==
    IF types = <<>> THEN Raise("exhausted")
    ELSE bind_simple_type(field_data, types[1].of)

\* the loop of lines 196-200
first_primitive(field_data, types) ==
    IF types = <<>> THEN Raise("exhausted")
    ELSE LET r == bind_simple_type(field_data, types[1].of)
         IN  IF IsOk(r) THEN r ELSE first_primitive(field_data, Tail(types))

\* mutant: with str declared the input is returned as it is, unconverted
bind_union_raw(field_data, field_type) ==
    LET field_types == field_type.of
        c == first_class(field_data, SelectSeq(field_types, NotInPrimitiveTypes))
        p == first_primitive(field_data,
                             sorted_by_index(SelectSeq(field_types, InPrimitiveTypes)))
    IN  IF IsOk(c) THEN c
        ELSE IF \E i \in DOMAIN field_types : field_types[i] = Prim("str")
        THEN Ok(field_data)
        ELSE IF IsOk(p) THEN p
        ELSE Raise("ValidationError")

bind_union(field_data, field_type) ==
    LET field_types == field_type.of
        c == first_class(field_data, SelectSeq(field_types, NotInPrimitiveTypes))
        primitive_fields_types == sorted_by_index(SelectSeq(field_types, InPrimitiveTypes))
        p == first_primitive(field_data, primitive_fields_types)
    IN  IF IsOk(c) THEN c
        ELSE IF IsOk(p) THEN p
        ELSE IF \E i \in DOMAIN field_types : field_types[i] = Prim("str")
        THEN Ok(field_data)
        ELSE Raise("ValidationError")

(***************************************************************************)
(* Classes and the entry point                                             *)
(***************************************************************************)
\* mutant: data[field_name], which raises for an absent key
get_item(d, key) ==
    IF d.t # "dict" THEN Raise("TypeError")
    ELSE IF \E i \in DOMAIN d.v : d.v[i][1] = key
    THEN Ok(d.v[CHOOSE i \in DOMAIN d.v : d.v[i][1] = key][2])
    ELSE Raise("KeyError")

\* data.get(field_name)
Get(d, key) ==
    IF d.t # "dict" THEN Raise("AttributeError")
    ELSE IF \E i \in DOMAIN d.v : d.v[i][1] = key
    THEN Ok(d.v[CHOOSE i \in DOMAIN d.v : d.v[i][1] = key][2])
    ELSE Ok(None)

\* the dispatch of lines 112-126
bind_field_type(field_data, field_type) ==
    CASE if_custom_class(field_type) -> bind_class(field_data, field_type)
      [] field_type.kind \in {"list", "set"} -> bind_set_list(field_data, field_type)
      [] field_type.kind = "tuple" -> bind_tuple(field_data, field_type)
      [] field_type.kind = "dict" -> bind_dict(field_data, field_type)
      [] if_literal(field_type) -> bind_literal(field_data, field_type)
      [] if_union(field_type) -> bind_union(field_data, field_type)
      [] OTHER -> bind_simple_type(field_data, field_type.of)

\* the try block of one field, lines 110-126
bind_field(d, field_name, field_type) ==
    IF IsOk(Get(d, field_name))
    THEN bind_field_type(Get(d, field_name).val, field_type)
    ELSE Get(d, field_name)

\* clazz(**kw_fields), or on TypeError a blank instance with every field set
construct(clazz, kw_fields) == Ok(Object(clazz.of[1], kw_fields))

\* the loop of lines 109-128 from field i on, then lines 130-136
bind_fields(d, clazz, i, kw_fields) ==
    LET fields == clazz.of[3]
        r == bind_field(d, fields[i][1], fields[i][2])
    IN  IF i > Len(fields) THEN construct(clazz, kw_fields)
        ELSE IF IsOk(r)
        THEN bind_fields(d, clazz, i + 1, Append(kw_fields, <<fields[i][1], r.val>>))
        ELSE [st |-> "ValidationError", val |-> NoValue,
              path |-> <<fields[i][1]>> \o r.path]

\* get_type_hints(clazz) raises TypeError for anything that is no class
bind_class(d, clazz) ==
    IF clazz.kind = "class" THEN bind_fields(d, clazz, 1, <<>>)
    ELSE Raise("TypeError")

bind(d, clazz) ==
    IF InPrimitiveTypes(clazz) THEN bind_simple_type(d, clazz.of)
    ELSE bind_class(d, clazz)

(***************************************************************************)
(* The loader's constructor of scalars with placeholders                   *)
(***************************************************************************)
RECURSIVE findall(_, _), replace(_, _, _), resolve(_, _, _)

Min(S) == CHOOSE x \in S : \A y \in S : x <= y

\* the first position from p on that holds a character of C, else Len(s) + 1
FirstAt(s, p, C) ==
    LET hits == {i \in p..Len(s) : s[i] \in C}
    IN  IF hits = {} THEN Len(s) + 1 ELSE Min(hits)

\* where [^{:}]+ stops when it starts right after the "${" at i
NameEnd(s, i) == FirstAt(s, i + 2, {"{", ":", "}"})

\* the "}" that ends the match
MatchEnd(s, i) == FirstAt(s, NameEnd(s, i), {"}"})

\* \$\{([^{:}]+)(:?)([^}]+)?} matches at i
MatchAt(s, i) ==
    /\ i + 1 <= Len(s)
    /\ s[i] = "$"
    /\ s[i + 1] = "{"
    /\ NameEnd(s, i) > i + 2
    /\ MatchEnd(s, i) <= Len(s)

\* the groups of the match at i: variable, separator, default_value
Groups(s, i) ==
    LET e == NameEnd(s, i)
        f == MatchEnd(s, i)
    IN  IF s[e] = ":"
        THEN <<SubSeq(s, i + 2, e - 1), <<":">>, SubSeq(s, e + 1, f - 1)>>
        ELSE <<SubSeq(s, i + 2, e - 1), <<>>, SubSeq(s, e, f - 1)>>

\* ENV_VARIABLE_REGEX.findall(s), scanning from p
findall(s, p) ==
    LET starts == {i \in p..Len(s) : MatchAt(s, i)}
    IN  IF starts = {} THEN <<>>
        ELSE <<Groups(s, Min(starts))>> \o findall(s, MatchEnd(s, Min(starts)) + 1)

\* s.replace(old, new) for a non-empty old
replace(s, old, new) ==
    IF Len(s) < Len(old) THEN s
    ELSE IF SubSeq(s, 1, Len(old)) = old
    THEN new \o replace(SubSeq(s, Len(old) + 1, Len(s)), old, new)
    ELSE <<s[1]>> \o replace(Tail(s), old, new)

Contains(s, c) == \E i \in DOMAIN s : s[i] = c

\* raise ValueError(f'unable to resolve placeholder {variable}')
Unresolved(variable) == [st |-> "ValueError", val |-> NoValue, path |-> <<variable>>]

\* os.environ.get(variable, default_value); env maps a name to <<>> or <<value>>
EnvGet(env, variable, default_value) ==
    IF variable \in DOMAIN env /\ env[variable] # <<>>
    THEN env[variable][1] ELSE default_value

\* the loop of lines 97-101 over the matches still to handle
resolve(to_resolve, found, env) ==
    IF found = <<>> THEN Ok(StrV(to_resolve))
    ELSE LET variable == found[1][1]
             separator == found[1][2]
             default_value == found[1][3]
             value == EnvGet(env, variable, default_value)
         IN  IF value = <<>> /\ ~Contains(to_resolve, ":") THEN Unresolved(variable)
             ELSE resolve(replace(to_resolve,
                                  <<"$", "{">> \o variable \o separator \o default_value
                                      \o <<"}">>,
                                  value),
                          Tail(found), env)

constructor(to_resolve, env) == resolve(to_resolve, findall(to_resolve, 1), env)

(***************************************************************************)
(* The inputs of the model                                                 *)
(***************************************************************************)
MaxInt == 2

MaxLen == 2

MaxAlts == 3

field == <<"f", "i", "e", "l", "d">>

other == <<"o", "t", "h", "e", "r">>

Ints == (-MaxInt..MaxInt) \cup {5, 13, 23, 33}

Floats == {Fin(15, 1), Fin(-15, 1), Fin(322, 1), Fin(712, 2), Fin(2, 0), Fin(0, 0),
           Inf(1), NaN}

\* the strings of the test suite and some more, and every number as text
Texts ==
    {<<"T", "r", "u", "e">>,
     <<"t", "r", "u", "e">>,
     <<"T", "R", "U", "E">>,
     <<"F", "a", "l", "s", "e">>,
     <<"f", "a", "l", "s", "e">>,
     <<"N", "o", "n", "e">>,
     <<" ", "N", "o", "n", "e">>,
     <<"t", "e", "s", "t">>,
     <<"a", " ", "b">>,
     <<>>,
     <<"i", "n", "f">>,
     <<"n", "a", "n">>,
     <<"7", ".", "1", "2">>,
     <<"3", "2", ".", "2">>,
     <<"-", "2", "3">>,
     <<"0", "0", "0", "0", "0", "0", "2", "3">>,
     <<"0", "0", "0", "0", "0", "0">>,
     <<"0", "0", "0", "0", "0", "0", "3", "2", ".", "2">>,
     <<"5">>,
     <<".", "5">>,
     <<"5", ".">>,
     <<"-", "1", ".", "5">>,
     <<"o", "p", "t", "i", "o", "n", "1">>,
     <<"o", "p", "t", "i", "o", "n", "2">>,
     <<"t", "w", "o">>,
     <<" ", "2", " ">>,
     <<" ", "t", "r", "u", "e">>,
     <<"+", "1">>}
    \cup {IntStr(n) : n \in Ints} \cup {FloatStr(f) : f \in Floats}

Scalars ==
    {None, BoolV(TRUE), BoolV(FALSE)} \cup {IntV(n) : n \in Ints} \cup Floats
    \cup {StrV(s) : s \in Texts}

\* data_template(val)
data_template(val) == DictV(<< <<field, val>> >>)

Elements == {IntV(1), StrV(<<"2">>), StrV(<<"t", "w", "o">>), data_template(StrV(<<"1">>))}

SeqsUpTo(S, n) == UNION {[1..k -> S] : k \in 0..n}

Lists == {ListV(xs) : xs \in SeqsUpTo(Elements, MaxLen)}

Mappings ==
    {DictV(<<>>),
     data_template(data_template(IntV(1))),
     DictV(<< <<other, IntV(1)>> >>),
     DictV(<< <<field, IntV(1)>>, <<other, BoolV(TRUE)>> >>),
     DictV(<< <<field, StrV(<<"1">>)>>, <<other, StrV(<<"t", "e", "s", "t">>)>> >>),
     DictV(<< <<field, data_template(IntV(1))>>, <<other, data_template(StrV(<<"2">>))>> >>),
     DictV(<< <<field, data_template(IntV(1))>>, <<other, data_template(StrV(<<"t", "w", "o">>))>> >>)}

\* mappings that lack the key 'field'
Sparse == {DictV(<<>>), DictV(<< <<other, IntV(1)>> >>)}

Values == Scalars \cup Lists \cup Mappings \cup {data_template(x) : x \in Elements}

(***************************************************************************)
(* The scalars and environments of the loader                              *)
(***************************************************************************)
MaxParts == 3

EnvNames == {<<"A">>, <<"B">>}

\* unset, or set to '', 'v' or 'a:b'
EnvValues == {<<>>, << <<>> >>, << <<"v">> >>, << <<"a", ":", "b">> >>}

Environs == [EnvNames -> EnvValues]

Pieces ==
    {<<"$", "{", "A", "}">>,
     <<"$", "{", "B", "}">>,
     <<"$", "{", "A", ":", "d", "}">>,
     <<"$", "{", "A", ":", "}">>,
     <<"$", "{", "C", "}">>,
     <<"$", "{", "A">>,
     <<"$", "{">>,
     <<"}">>,
     <<"{">>,
     <<":">>,
     <<"x">>,
     <<"h", ":", "p">>}

Concat(parts) ==
    LET RECURSIVE from(_)
        from(i) == IF i > Len(parts) THEN <<>> ELSE parts[i] \o from(i + 1)
    IN  from(1)

\* the scalars: up to MaxParts pieces in a row
Nodes == {Concat(parts) : parts \in SeqsUpTo(Pieces, MaxParts)}

(***************************************************************************)
(* The schemas of the model                                                *)
(***************************************************************************)
Prims == {Prim(primitive_types[i]) : i \in DOMAIN primitive_types}

\* class NestedConfig: field: int
NestedConfig == Class("NestedConfig", "plain", << <<field, Prim("int")>> >>)

\* @dataclass class TestConfigNested: field: bool
TestConfigNested == Class("TestConfigNested", "dataclass", << <<field, Prim("bool")>> >>)

\* a class of two fields, the second one a string
PairConfig ==
    Class("PairConfig", "plain", << <<field, Prim("int")>>, <<other, Prim("str")>> >>)

\* a class without fields
EmptyConfig == Class("EmptyConfig", "plain", <<>>)

Classes == {NestedConfig, TestConfigNested, PairConfig, EmptyConfig}

IsInjective(f) == \A i, j \in DOMAIN f : f[i] = f[j] => i = j

\* Union[...] of 2..MaxAlts distinct primitives, in every declared order
PrimitiveUnions ==
    {UnionType(ds) : ds \in {f \in SeqsUpTo(Prims, MaxAlts) : Len(f) >= 2 /\ IsInjective(f)}}

ClassUnions ==
    {UnionType(<<NestedConfig, Prim("int")>>),
     UnionType(<<Prim("str"), NestedConfig>>),
     UnionType(<<NestedConfig, TestConfigNested>>),
     UnionType(<<TestConfigNested, NestedConfig>>),
     UnionType(<<EmptyConfig, Prim("int")>>),
     UnionType(<<ListType(Prim("int")), Prim("str")>>),
     UnionType(<<ListType(Prim("int")), Prim("bool")>>)}

TestLiteral ==
    LiteralType(<<IntV(1), IntV(2), IntV(3), IntV(5), IntV(8), IntV(13), BoolV(FALSE)>>)

Literals ==
    {TestLiteral,
     LiteralType(<<StrV(<<"o", "p", "t", "i", "o", "n", "1">>), StrV(<<"o", "p", "t", "i", "o", "n", "2">>)>>),
     LiteralType(<<IntV(1), BoolV(TRUE)>>),
     LiteralType(<<StrV(<<"1">>), IntV(1)>>),
     LiteralType(<<IntV(1), StrV(<<"1">>)>>),
     LiteralType(<<None, StrV(<<"t", "e", "s", "t">>)>>)}

Collections ==
    {ListType(d) : d \in Prims} \cup {SetType(d) : d \in Prims}
    \cup {ListType(NestedConfig), SetType(NestedConfig), SetType(TestConfigNested),
          ListType(ListType(Prim("int"))),
          ListType(UnionType(<<Prim("int"), Prim("str")>>)),
          ListType(LiteralType(<<IntV(1), IntV(2)>>)),
          TupleType(<<Prim("int")>>),
          TupleType(<<Prim("int"), Prim("str")>>),
          TupleType(<<Prim("bool"), TestConfigNested>>),
          TupleType(<<ListType(Prim("int")), Prim("str")>>)}

Maps ==
    {DictType(Prim("str"), Prim("int")),
     DictType(Prim("str"), Prim("str")),
     DictType(Prim("str"), NestedConfig),
     DictType(Prim("int"), NestedConfig),
     DictType(Prim("int"), Prim("int")),
     DictType(NestedConfig, NestedConfig),
     DictType(Prim("str"), ListType(Prim("int")))}

FieldTypes ==
    Prims \cup Classes \cup PrimitiveUnions \cup ClassUnions \cup Literals
    \cup Collections \cup Maps

\* class TestConfig: field: <field_type>
TestConfig(field_type) == Class("TestConfig", "plain", << <<field, field_type>> >>)

(***************************************************************************)
(* The state machine: a bind call on the current input, and for a          *)
(* primitive schema a second call on what the first one returned           *)
(***************************************************************************)
NoResult == Raise("none")

Init ==
    /\ \E d \in FieldTypes :
          \/ \E x \in Values : untyped = x /\ schema = d
          \/ \E x \in Values : untyped = data_template(x) /\ schema = TestConfig(d)
          \/ untyped \in Sparse /\ schema = TestConfig(d)
    /\ pc = "ready"
    /\ result = NoResult
    /\ first = NoResult
    /\ environ = [n \in EnvNames |-> <<>>]

\* ConfigBinder.bind(data, clazz)
Bind ==
    /\ pc = "ready"
    /\ result' = bind(untyped, schema)
    /\ pc' = "bound"
    /\ UNCHANGED <<untyped, schema, first, environ>>

\* the caller hands the bound primitive back as the next input
Again ==
    /\ pc = "bound"
    /\ first = NoResult
    /\ IsOk(result)
    /\ InPrimitiveTypes(schema)
    /\ untyped' = result.val
    /\ first' = result
    /\ result' = NoResult
    /\ pc' = "ready"
    /\ UNCHANGED <<schema, environ>>

Next == Bind \/ Again

Spec == Init /\ [][Next]_vars

(***************************************************************************)
(* The loader: the constructor resolves the placeholders of one scalar     *)
(***************************************************************************)
LoaderInit ==
    /\ untyped \in {StrV(s) : s \in Nodes}
    /\ environ \in Environs
    /\ schema = Prim("str")
    /\ pc = "scalar"
    /\ result = NoResult
    /\ first = NoResult

\* ConfigBinder.__constructor(loader, node)
Construct ==
    /\ pc = "scalar"
    /\ result' = constructor(untyped.v, environ)
    /\ pc' = "constructed"
    /\ UNCHANGED <<untyped, schema, first, environ>>

LoaderNext == Construct

LoaderSpec == LoaderInit /\ [][LoaderNext]_vars

(***************************************************************************)
(* Reading a state                                                         *)
(***************************************************************************)
\* the first bind call has returned or raised
FirstCall == pc = "bound" /\ first = NoResult

\* ... and it was bind(data_template(val), TestConfig), as in the test suite
AsField == FirstCall /\ schema.kind = "class" /\ schema.of[1] = "TestConfig"

FieldType == schema.of[3][1][2]

FieldData == Get(untyped, field).val

\* what binding the field gave: the value of the instance's field, or the error
FieldResult == IF IsOk(result) THEN Ok(result.val.v[2][1][2]) ELSE result

TextTrue == <<"T", "r", "u", "e">>

TextFalse == <<"F", "a", "l", "s", "e">>

TextNone == <<"N", "o", "n", "e">>

TextTest == <<"t", "e", "s", "t">>

\* Union[int, str, bool]
TestUnion == UnionType(<<Prim("int"), Prim("str"), Prim("bool")>>)

\* Optional[bool]
OptionalBool == UnionType(<<Prim("bool"), Prim("NoneType")>>)

(***************************************************************************)
(* C1: a Union field binds in two ordered phases: the first non-primitive  *)
(* alternative, in declared order, that binds as a class; failing that the *)
(* first primitive alternative that binds in the fixed order bool, int,    *)
(* float, NoneType, str, whatever order the Union declares.  For           *)
(* Union[int, str, bool]: "True"/True give True, 23/"23" give 23, "test"   *)
(* gives "test".                                                           *)
(***************************************************************************)
C1_UnionTwoPhases ==
    (AsField /\ if_union(FieldType)) =>
        LET alts == FieldType.of
            classes == {i \in DOMAIN alts :
                          /\ ~InPrimitiveTypes(alts[i])
                          /\ IsOk(bind_class(FieldData, alts[i]))}
            prims == {k \in DOMAIN primitive_types :
                        /\ \E i \in DOMAIN alts : alts[i] = Prim(primitive_types[k])
                        /\ IsOk(bind_simple_type(FieldData, primitive_types[k]))}
        IN  /\ classes # {} => FieldResult = bind_class(FieldData, alts[Min(classes)])
            /\ (classes = {} /\ prims # {}) =>
                   FieldResult = bind_simple_type(FieldData, primitive_types[Min(prims)])
            /\ (FieldType = TestUnion /\ FieldData \in {StrV(TextTrue), BoolV(TRUE)}) =>
                   FieldResult = Ok(BoolV(TRUE))
            /\ (FieldType = TestUnion /\ FieldData \in {IntV(23), StrV(IntStr(23))}) =>
                   FieldResult = Ok(IntV(23))
            /\ (FieldType = TestUnion /\ FieldData = StrV(TextTest)) =>
                   FieldResult = Ok(StrV(TextTest))

C1_Witness ==
    /\ AsField
    /\ FieldType = TestUnion
    /\ FieldData = StrV(TextTrue)
    /\ FieldResult = Ok(BoolV(TRUE))

(***************************************************************************)
(* C2: a Union field that declares str never fails: when no other          *)
(* alternative accepts the input the result is the input as a str (None    *)
(* gives "None"), for scalars, sequences and mappings alike.  A Union      *)
(* without str fails with a ValidationError exactly when no alternative    *)
(* accepts the input (Optional[bool] fails for 23, "23" and "test").       *)
(***************************************************************************)
Accepts(x, d) ==
    IF InPrimitiveTypes(d) THEN IsOk(bind_simple_type(x, d.of)) ELSE IsOk(bind_class(x, d))

C2_UnionWithStrNeverFails ==
    (AsField /\ if_union(FieldType)) =>
        LET alts == FieldType.of
            has_str == \E i \in DOMAIN alts : alts[i] = Prim("str")
            another == \E i \in DOMAIN alts :
                          alts[i] # Prim("str") /\ Accepts(FieldData, alts[i])
            any == \E i \in DOMAIN alts : Accepts(FieldData, alts[i])
        IN  /\ has_str => IsOk(result)
            /\ (has_str /\ ~another) =>
                   /\ FieldResult.val.t = "str"
                   /\ FieldData.t = "str" => FieldResult.val = FieldData
                   /\ FieldData = None => FieldResult.val = StrV(TextNone)
            /\ ~has_str => (IsOk(result) <=> any)
            /\ (~has_str /\ ~any) => result.st = "ValidationError"
            /\ (FieldType = OptionalBool
                  /\ FieldData \in {IntV(23), StrV(IntStr(23)), StrV(TextTest)}) =>
                   result.st = "ValidationError"

C2_Witness ==
    /\ AsField
    /\ FieldType = UnionType(<<Prim("int"), Prim("str")>>)
    /\ FieldData.t = "list"
    /\ FieldData.v # <<>>
    /\ IsOk(result)
    /\ FieldResult.val.t = "str"

(***************************************************************************)
(* C3: native booleans and native numbers never coerce into each other: an *)
(* int or float target rejects a native bool and the strings "True" and    *)
(* "False" with a ValidationError; a bool target accepts exactly native    *)
(* bools and the strings that read true/false in any case, and rejects     *)
(* every number (0 and 1 too), None and every other string.                *)
(***************************************************************************)
\* the primitive call under way: at top level, or for the field of TestConfig
Target == IF AsField THEN FieldType ELSE schema

Input == IF AsField THEN FieldData ELSE untyped

Outcome == IF AsField THEN FieldResult ELSE result

ReadsAsBool(x) == x.t = "str" /\ Lower(x.v) \in {Lower(TextTrue), Lower(TextFalse)}

C3_BoolAndNumberApart ==
    (FirstCall /\ InPrimitiveTypes(Target)) =>
        /\ (Target.of \in {"int", "float"}
              /\ (Input.t = "bool" \/ Input \in {StrV(TextTrue), StrV(TextFalse)})) =>
               Outcome.st = "ValidationError"
        /\ Target.of = "bool" =>
               /\ IsOk(Outcome) <=> (Input.t = "bool" \/ ReadsAsBool(Input))
               /\ ~IsOk(Outcome) => Outcome.st = "ValidationError"
               /\ (IsOk(Outcome) /\ Input.t = "bool") => Outcome.val = Input
               /\ (IsOk(Outcome) /\ Input.t = "str") =>
                      Outcome.val = BoolV(Lower(Input.v) = Lower(TextTrue))

C3_Witness ==
    /\ FirstCall
    /\ schema = Prim("int")
    /\ untyped = BoolV(TRUE)
    /\ result.st = "ValidationError"

(***************************************************************************)
(* C4: for a primitive target T, a value whose native type is exactly T is *)
(* returned unchanged; hence binding the result r of a successful          *)
(* primitive bind against T again returns r.                               *)
(***************************************************************************)
C4_PrimitiveIdempotent ==
    /\ (FirstCall /\ InPrimitiveTypes(Target) /\ Input.t = Target.of) =>
           Outcome = Ok(Input)
    /\ (pc = "bound" /\ first # NoResult) => result = first

C4_Witness ==
    /\ pc = "bound"
    /\ schema = Prim("int")
    /\ first = Ok(IntV(23))
    /\ result = Ok(IntV(23))

(***************************************************************************)
(* C5: a Literal field binds iff some allowed value a equals the input     *)
(* coerced to a's type; the result is the first such a in declared order,  *)
(* with a's own type.  A candidate whose coercion fails is skipped, and    *)
(* only when every candidate is exhausted is a ValidationError raised.     *)
(* For Literal[1, 2, 3, 5, 8, 13, False]: False gives False, "13" gives    *)
(* 13, and 33, "33", True and "True" fail.                                 *)
(***************************************************************************)
C5_LiteralFirstMatch ==
    (AsField /\ if_literal(FieldType)) =>
        LET args == FieldType.of
            matches == {i \in DOMAIN args :
                          bind_simple_type(FieldData, args[i].t) = Ok(args[i])}
        IN  /\ IsOk(result) <=> matches # {}
            /\ matches # {} => FieldResult = Ok(args[Min(matches)])
            /\ matches = {} => result.st = "ValidationError"
            /\ (FieldType = TestLiteral /\ FieldData = BoolV(FALSE)) =>
                   FieldResult = Ok(BoolV(FALSE))
            /\ (FieldType = TestLiteral /\ FieldData = StrV(IntStr(13))) =>
                   FieldResult = Ok(IntV(13))
            /\ (FieldType = TestLiteral
                  /\ FieldData \in {IntV(33), StrV(IntStr(33)), BoolV(TRUE), StrV(TextTrue)}) =>
                   result.st = "ValidationError"

C5_Witness ==
    /\ AsField
    /\ FieldType = TestLiteral
    /\ FieldData = StrV(IntStr(13))
    /\ FieldResult = Ok(IntV(13))

(***************************************************************************)
(* C6: every failure of bind is a ValidationError, at top level as well as *)
(* in a recursive call: no other kind of error surfaces.  Stated for the   *)
(* descriptors bind itself tells apart, a primitive or a class.            *)
(***************************************************************************)
C6_OnlyValidationErrors ==
    (pc = "bound" /\ schema.kind \in {"primitive", "class"}) =>
        result.st \in {"ok", "ValidationError"}

(***************************************************************************)
(* C7: a Tuple field binds only an input of exactly the declared arity: a  *)
(* shorter or longer sequence fails, and on success position i of the      *)
(* result is element i bound against descriptor i, for every position.     *)
(***************************************************************************)
C7_TupleArity ==
    (AsField /\ FieldType.kind = "tuple" /\ FieldData.t = "list") =>
        /\ Len(FieldData.v) # Len(FieldType.of) => ~IsOk(result)
        /\ IsOk(result) =>
               \A i \in DOMAIN FieldType.of :
                   Ok(FieldResult.val.v[i]) = bind(FieldData.v[i], FieldType.of[i])

(***************************************************************************)
(* C8: in every successful bind each element of a bound list, set or tuple *)
(* and each value of a bound dict conforms to the descriptor declared for  *)
(* it (every value of a Dict[str, int] field is an int).                   *)
(***************************************************************************)
\* the value is an instance of the descriptor
Conforms(x, d) ==
    CASE d.kind = "primitive" -> x.t = d.of
      [] d.kind = "class" ->
            /\ x.t = "object"
            /\ x.v[1] = d.of[1]
            /\ Len(x.v[2]) = Len(d.of[3])
            /\ \A i \in DOMAIN d.of[3] :
                   x.v[2][i][1] = d.of[3][i][1] /\ Conforms(x.v[2][i][2], d.of[3][i][2])
      [] d.kind \in {"list", "set"} ->
            x.t = d.kind /\ \A i \in DOMAIN x.v : Conforms(x.v[i], d.of[1])
      [] d.kind = "tuple" ->
            /\ x.t = "tuple"
            /\ \A i \in DOMAIN x.v : i <= Len(d.of) /\ Conforms(x.v[i], d.of[i])
      [] d.kind = "dict" ->
            x.t = "dict" /\ \A i \in DOMAIN x.v : Conforms(x.v[i][2], d.of[2])
      [] d.kind = "Literal" -> \E i \in DOMAIN d.of : x = d.of[i]
      [] d.kind = "Union" -> \E i \in DOMAIN d.of : Conforms(x, d.of[i])

C8_ElementsValidated ==
    (AsField /\ IsOk(result) /\ if_collection(FieldType)
       /\ FieldData.t = (IF FieldType.kind = "dict" THEN "dict" ELSE "list")) =>
        Conforms(FieldResult.val, FieldType)

(***************************************************************************)
(* C9: the dispatch class, collection, Literal, Union, primitive is        *)
(* applied wherever a descriptor is bound: a top-level bind with a         *)
(* collection, Literal or Union descriptor gives what the same descriptor  *)
(* gives as a field, and so does each element of a list or set whose       *)
(* element descriptor is one of these.                                     *)
(***************************************************************************)
Generic == {"list", "set", "tuple", "dict", "Literal", "Union"}

C9_DispatchEverywhere ==
    /\ (FirstCall /\ schema.kind \in Generic) =>
           result = bind_field_type(untyped, schema)
    /\ (AsField /\ FieldType.kind \in {"list", "set"} /\ FieldData.t = "list"
          /\ FieldType.of[1].kind \in Generic) =>
           (IsOk(result) <=>
               \A i \in DOMAIN FieldData.v :
                   IsOk(bind_field_type(FieldData.v[i], FieldType.of[1])))

(***************************************************************************)
(* C10 as stated: a Dict field whose key type is not str is rejected for   *)
(* every input, and with an error of another kind than the ValidationError *)
(* of a value that fails to bind.                                          *)
(***************************************************************************)
NonStrKeys == AsField /\ FieldType.kind = "dict" /\ FieldType.of[1] # Prim("str")

C10_DistinctKind == NonStrKeys => (~IsOk(result) /\ result.st # "ValidationError")

(***************************************************************************)
(* C10 amended: a Dict field whose key type is not str is rejected for     *)
(* every input (None and the empty dict too) before any value is looked    *)
(* at: the error names the field only.  It is a ValidationError, the same  *)
(* kind as the error of a value that fails to bind, which names the field  *)
(* and the value's own field.                                              *)
(***************************************************************************)
C10_NonStrKeyRejected ==
    /\ NonStrKeys =>
           result = [st |-> "ValidationError", val |-> NoValue, path |-> <<field>>]
    /\ (AsField /\ FieldType = DictType(Prim("str"), NestedConfig)
          /\ FieldData.t = "dict" /\ ~IsOk(result)) =>
           result.st = "ValidationError" /\ Len(result.path) = 2

C10_Witness ==
    /\ NonStrKeys
    /\ FieldType.of[2] = Prim("int")
    /\ FieldData = DictV(<<>>)
    /\ result.st = "ValidationError"

(***************************************************************************)
(* C11: binding an object treats an absent key as null: for a mapping      *)
(* without the key of a declared field the call has the outcome of the     *)
(* call on the mapping extended with that key mapped to None.  An absent   *)
(* field makes the call fail exactly when its type rejects None, and the   *)
(* error then names the first such field: a str field becomes "None", a    *)
(* Union with NoneType becomes None unless one of its class alternatives   *)
(* binds None, an int, float or bool field fails with a ValidationError.   *)
(***************************************************************************)
HasKey(d, key) == \E i \in DOMAIN d.v : d.v[i][1] = key

WithNull(d, key) == DictV(Append(d.v, <<key, None>>))

\* the value the bound instance holds for its i-th field
BoundField(r, i) == r.val.v[2][i][2]

C11_AbsentIsNull ==
    (FirstCall /\ schema.kind = "class" /\ untyped.t = "dict") =>
        LET fields == schema.of[3]
            absent == {i \in DOMAIN fields : ~HasKey(untyped, fields[i][1])}
            rejects(i) == ~IsOk(bind_field_type(None, fields[i][2]))
            optional(d) ==
                /\ if_union(d)
                /\ \E k \in DOMAIN d.of : d.of[k] = Prim("NoneType")
                /\ \A k \in DOMAIN d.of :
                       NotInPrimitiveTypes(d.of[k]) => ~IsOk(bind_class(None, d.of[k]))
        IN  \A i \in absent :
               /\ result = bind(WithNull(untyped, fields[i][1]), schema)
               /\ rejects(i) => result.st = "ValidationError"
               /\ absent = DOMAIN fields =>
                      (IsOk(result) <=> \A j \in absent : ~rejects(j))
               /\ (absent = DOMAIN fields /\ ~IsOk(result)) =>
                      result.path[1] = fields[Min({j \in absent : rejects(j)})][1]
               /\ fields[i][2] \in {Prim("int"), Prim("float"), Prim("bool")} => rejects(i)
               /\ (IsOk(result) /\ fields[i][2] = Prim("str")) =>
                      BoundField(result, i) = StrV(TextNone)
               /\ (IsOk(result) /\ optional(fields[i][2])) => BoundField(result, i) = None

C11_Witness ==
    /\ FirstCall
    /\ schema = TestConfig(Prim("str"))
    /\ untyped = DictV(<< <<other, IntV(1)>> >>)
    /\ IsOk(result)
    /\ BoundField(result, 1) = StrV(TextNone)

(***************************************************************************)
(* C12: the error that bind raises carries one entry for every frame from  *)
(* the root to the failure, in that order: when element i of a list, set   *)
(* or tuple field fails, or the value under key k of a dict field, the     *)
(* path is the field, then i or k, then the path of the element's own      *)
(* failure (elements of a primitive or class type, which bind dispatches). *)
(***************************************************************************)
\* the frames the error of the field of TestConfig names after the field itself
Below == SubSeq(result.path, 2, Len(result.path))

C12_FullPath ==
    (AsField /\ ~IsOk(result) /\ FieldData.t \in {"list", "dict"}) =>
        LET d == FieldType
            x == FieldData
            n == IF d.kind = "tuple" THEN Min({Len(x.v), Len(d.of)}) ELSE Len(x.v)
            type(i) == IF d.kind = "tuple" THEN d.of[i] ELSE d.of[1]
            bad == {i \in 1..n : ~IsOk(bind(x.v[i], type(i)))}
            badk == {i \in DOMAIN x.v : ~IsOk(bind_class(x.v[i][2], d.of[2]))}
        IN  /\ result.path[1] = field
            /\ (d.kind \in {"list", "set", "tuple"} /\ x.t = "list" /\ bad # {}
                  /\ \A i \in 1..n : type(i).kind \in {"primitive", "class"}) =>
                   /\ Len(Below) = 1 + Len(bind(x.v[Min(bad)], type(Min(bad))).path)
                   /\ Tail(Below) = bind(x.v[Min(bad)], type(Min(bad))).path
            /\ (d.kind = "dict" /\ d.of[1] = Prim("str") /\ if_custom_class(d.of[2])
                  /\ x.t = "dict" /\ badk # {}) =>
                   /\ Len(Below) = 1 + Len(bind_class(x.v[Min(badk)][2], d.of[2]).path)
                   /\ Tail(Below) = bind_class(x.v[Min(badk)][2], d.of[2]).path

(***************************************************************************)
(* C13: the loader resolves a scalar that holds one placeholder amid text  *)
(* without another "$": for ${NAME} with NAME unset the constructor raises *)
(* the error that names NAME, whatever the text around it; with NAME set   *)
(* to a non-empty value the value takes the placeholder's place; for       *)
(* ${NAME:d} with NAME unset the default d takes its place.                *)
(***************************************************************************)
Placeholder(name) == <<"$", "{">> \o name \o <<"}">>

WithDefault(name, default) == <<"$", "{">> \o name \o <<":">> \o default \o <<"}">>

\* the scalar is pre, then the text ph from position k on, then post
Around(k, ph) ==
    [pre |-> SubSeq(untyped.v, 1, k - 1),
     post |-> SubSeq(untyped.v, k + Len(ph), Len(untyped.v))]

\* ph stands at position k, and no "$" before or after it
Holds(k, ph) ==
    /\ k + Len(ph) - 1 <= Len(untyped.v)
    /\ SubSeq(untyped.v, k, k + Len(ph) - 1) = ph
    /\ ~Contains(Around(k, ph).pre, "$")
    /\ ~Contains(Around(k, ph).post, "$")

C13_Placeholders ==
    pc = "constructed" =>
        \A name \in EnvNames : \A k \in DOMAIN untyped.v :
            /\ Holds(k, Placeholder(name)) =>
                  LET a == Around(k, Placeholder(name))
                  IN  /\ environ[name] = <<>> => result = Unresolved(name)
                      /\ (environ[name] # <<>> /\ environ[name][1] # <<>>) =>
                             result = Ok(StrV(a.pre \o environ[name][1] \o a.post))
            /\ Holds(k, WithDefault(name, <<"d">>)) =>
                  LET a == Around(k, WithDefault(name, <<"d">>))
                  IN  environ[name] = <<>> => result = Ok(StrV(a.pre \o <<"d">> \o a.post))

(***************************************************************************)
(* C14: scalar results have the declared type: a primitive bind that       *)
(* succeeds for target T returns a value whose type is exactly T, and a    *)
(* Union field that binds holds an instance of one of the declared         *)
(* alternatives.  With str declared the primitive phase always succeeds,   *)
(* so the return of the raw input at the end of __bind_union is never      *)
(* reached: an input that is no str comes back converted (None as          *)
(* "None"), never as it is under the name of a str.                        *)
(***************************************************************************)
IsInstance(x, d) ==
    IF InPrimitiveTypes(d) THEN TypeOf(x) = d.of
    ELSE d.kind = "class" /\ TypeOf(x) = "object" /\ x.v[1] = d.of[1]

C14_ScalarTypeSound ==
    /\ (pc = "bound" /\ InPrimitiveTypes(Target) /\ IsOk(Outcome)) =>
           TypeOf(Outcome.val) = Target.of
    /\ (AsField /\ if_union(FieldType)) =>
           LET alts == FieldType.of
               has_str == \E i \in DOMAIN alts : alts[i] = Prim("str")
               declared == {alts[i].of : i \in {j \in DOMAIN alts : InPrimitiveTypes(alts[j])}}
               phase == first_primitive(FieldData,
                                        sorted_by_index(SelectSeq(alts, InPrimitiveTypes)))
           IN  /\ IsOk(result) => \E i \in DOMAIN alts : IsInstance(FieldResult.val, alts[i])
               /\ has_str => IsOk(phase)
               /\ (has_str /\ TypeOf(FieldData) \notin declared) =>
                      /\ IsOk(result)
                      /\ TypeOf(FieldResult.val) # TypeOf(FieldData)
               /\ (FieldType = TestUnion /\ FieldData = None) =>
                      FieldResult = Ok(StrV(TextNone))

C14_Witness ==
    /\ AsField
    /\ FieldType = TestUnion
    /\ FieldData = None
    /\ FieldResult = Ok(StrV(TextNone))

====
